---- MODULE Spec2Model ----
(***************************************************************************)
(* A model of the News-Agent market research pipeline:                     *)
(*   - one run of an entrypoint (api/cron.py run_market_research or        *)
(*     run_market_research.py main) around MarketResearchAgent             *)
(*     .analyze_market                                          (Spec)     *)
(*   - MarketDataCollector._fetch_with_retry                    (SpecFetch)*)
(*   - MarketDataCollector.fetch_headlines                  (SpecHeadlines)*)
(*   - MarketDataCollector._fetch_yields_sync,                              *)
(*     _fetch_benchmarks_sync, _fetch_major_movers_sync      (SpecAdapters)*)
(***************************************************************************)
EXTENDS Integers, Sequences, FiniteSets, TLC

VARIABLES
    \* ---- one run of an entrypoint -------------------------------------
    entry,          \* which entrypoint runs: "cron" or "cli"
    slack_token,    \* os.getenv("SLACK_BOT_TOKEN") is set
    pc,             \* position of the run
    tasks,          \* adapter name -> "created" | "running" | "done"
    results,        \* adapter name -> what asyncio.gather holds for the task
    session_open,   \* the collector's aiohttp session is open
    snapshot,       \* headlines, yields, benchmarks, movers after line 394
    input_data,     \* the prompt input built at lines 466-472
    llm_calls,      \* model invocations so far, in order
    primary_error,  \* the exception `e` of the primary call (line 355)
    analysis,       \* what analyze_market returned
    email_calls,    \* contents handed to EmailSender.send, in order
    slack_calls,    \* texts handed to SlackSender.send, in order
    email_success,  \* what EmailSender.send returned
    result,         \* the dict run_market_research returns
    sys_exit,       \* the exit codes main() returned (empty until it returns)
    slack_success,  \* what slack_sender.send returned (True before the call)
    exceptions,     \* the steps of the run that raised, in order
    http_status,    \* the status codes handler.do_GET sent (empty until then)
    \* ---- one call of _fetch_with_retry --------------------------------
    endpoint,       \* what the endpoint does at the 1st, 2nd, 3rd request
    fetch_pc,       \* "request" | "sleep" | "returned" | "raised"
    attempt,        \* the loop variable of `for attempt in range(3)`
    requests,       \* session.get calls issued so far
    sleeps,         \* the asyncio.sleep delays so far, in order
    fetch_result,   \* what _fetch_with_retry returned
    \* ---- one call of fetch_headlines ----------------------------------
    fmp_api_key,    \* FMP_API_KEY is set
    responses,      \* news source -> what its endpoint answers
    hl_pc,          \* "start" | "loop" | "dedup" | "returned" | "raised"
    source_idx,     \* position in news_sources.items()
    requested,      \* the sources requested so far, in order
    all_headlines,  \* all_headlines
    unique_headlines, \* what fetch_headlines returned
    \* ---- one call of a synchronous FMP adapter -------------------------
    adapter,        \* "yields" | "benchmarks" | "movers"
    fmp,            \* endpoint -> what it answers
    sync_pc,        \* "start" | "loop" | "fallback" | "returned"
    fmp_requests,   \* the endpoints requested with requests.get, in order
    built,          \* the local yields / benchmarks / movers so far
    sync_result     \* what the adapter returned

runVars == <<entry, slack_token, pc, tasks, results, session_open, snapshot,
             input_data, llm_calls, primary_error, analysis, email_calls,
             slack_calls, email_success, result, sys_exit, slack_success,
             exceptions, http_status>>

fetchVars == <<endpoint, fetch_pc, attempt, requests, sleeps, fetch_result>>

headlineVars == <<fmp_api_key, responses, hl_pc, source_idx, requested,
                  all_headlines, unique_headlines>>

adapterVars == <<adapter, fmp, sync_pc, fmp_requests, built, sync_result>>

vars == <<runVars, fetchVars, headlineVars, adapterVars>>

----------------------------------------------------------------------------
(* Values *)

AdapterNames == {"headlines", "yields", "benchmarks", "movers"}

\* What gather(..., return_exceptions=True) holds for a finished task: the
\* value the coroutine returned, or the exception it raised.
Returned(v) == [raised |-> FALSE, value |-> v]
RaisedException == [raised |-> TRUE, value |-> <<>>]

HeadlineResults == {<<>>, <<"Fed holds rates steady">>}

\* yields[name] = data[0].get('price'): the price, or None when the record
\* has no price (has_price = FALSE).
YieldResults ==
    { <<>>,
      << [name |-> "US 10Y", has_price |-> TRUE, price |-> 425] >>,
      << [name |-> "US 10Y", has_price |-> FALSE, price |-> 0] >> }

BenchmarkResults ==
    { <<>>, << [name |-> "S&P 500", price |-> 5000, change_pct |-> 50] >> }

MoverResults ==
    { <<>>,
      << [symbol |-> "NVDA", name |-> "NVIDIA", change_pct |-> 312,
          type |-> "gainers"] >> }

AdapterValues(a) ==
    CASE a = "headlines" -> HeadlineResults
      [] a = "yields" -> YieldResults
      [] a = "benchmarks" -> BenchmarkResults
      [] a = "movers" -> MoverResults

\* Every outcome of an adapter task: a normal return, or an exception that
\* escaped the adapter's own handling.
AdapterOutcomes(a) == {Returned(v) : v \in AdapterValues(a)} \cup {RaisedException}

PrimaryModel == "openai/gpt-oss-120b"
FallbackModel == "llama-3.3-70b-versatile"

LLMCauses == {"timeout", "api error"}

\* ainvoke on a chain: a response dict with a 'text' key, or an exception.
LLMOutcomes(model) ==
    {[ok |-> TRUE, text |-> model, cause |-> "none"]}
        \cup {[ok |-> FALSE, text |-> "", cause |-> c] : c \in LLMCauses}

\* One LLMChain(llm=model, prompt=chain.prompt).ainvoke(input_data), with
\* what it gave back.
LLMCall(model, input, o) == [model |-> model, input |-> input, outcome |-> o]

\* The strings analyze_market can return.
Briefing(text) ==
    [kind |-> "briefing", text |-> text, primary |-> "none", fallback |-> "none"]
NoDataMessage ==
    [kind |-> "error", text |-> "Failed to collect any market data.",
     primary |-> "none", fallback |-> "none"]
AiErrorMessage(e) ==
    [kind |-> "error", text |-> "An error occurred during AI analysis: Both models failed.",
     primary |-> e.primary, fallback |-> e.fallback]
NoAnalysis ==
    [kind |-> "none", text |-> "", primary |-> "none", fallback |-> "none"]

\* raise Exception(f"Both models failed. Primary: {e}, Fallback: {fallback_error}")
BothModelsFailed(e, fallback_error) == [primary |-> e, fallback |-> fallback_error]

NoResult ==
    [returned |-> FALSE, success |-> FALSE, keys |-> {}, email_sent |-> FALSE,
     slack_sent |-> FALSE, error |-> "", message |-> ""]

----------------------------------------------------------------------------
(* MarketResearchAgent.analyze_market *)

\* gather without return_exceptions: the first exception ends the wait
GatherDone_FirstException(t, r) ==
    \/ \A a \in AdapterNames : t[a] = "done"
    \/ \E a \in AdapterNames : t[a] = "done" /\ r[a].raised

\* asyncio.gather(*tasks.values(), return_exceptions=True) is ready to return
GatherDone(t, r) == \A a \in AdapterNames : t[a] = "done"

\* if isinstance(x, Exception): x = [] / {}
ExceptionToEmpty(r) == IF r.raised THEN <<>> ELSE r.value

\* a breaker that tests the collections for None instead of emptiness
AnyData_NotNone(headlines, yields, benchmarks, movers) == TRUE

\* a breaker that forgets the yields
AnyData_NoYields(headlines, yields, benchmarks, movers) ==
    headlines # <<>> \/ benchmarks # <<>> \/ movers # <<>>

\* any([headlines, yields, benchmarks, movers])
AnyData(headlines, yields, benchmarks, movers) ==
    headlines # <<>> \/ yields # <<>> \/ benchmarks # <<>> \/ movers # <<>>

\* A formatting that accepts None
FormatYieldsRaises_Never(yields) == FALSE

\* f"{name}: {value:.2f}%" raises TypeError when value is None
FormatYieldsRaises(yields) == \E i \in 1..Len(yields) : ~yields[i].has_price

\* A formatted section of the prompt: its lines, or "Data not available."
FormatSection(c) == [available |-> c # <<>>, lines |-> c]

InputData(s) ==
    [headlines |-> FormatSection(s.headlines),
     formatted_yields |-> FormatSection(s.yields),
     formatted_benchmarks |-> FormatSection(s.benchmarks),
     formatted_movers |-> FormatSection(s.movers)]

NoInput == InputData([a \in AdapterNames |-> <<>>])

\* a fallback that runs whatever the primary did
PrimaryFailed_Always(o) == TRUE

\* _try_llm_with_fallback reaches its except branch
PrimaryFailed(o) == ~o.ok

\* agent.format_email_content(analysis): the analysis inside the HTML frame
FormatEmailContent(a) == [html |-> TRUE, content |-> a]

----------------------------------------------------------------------------
(* The entrypoints' results *)

\* A result whose success depends on the deliveries
CronSuccess_NeedsDelivery(email, slack) ==
    [returned |-> TRUE, success |-> email /\ slack,
     keys |-> {"success", "timestamp", "email_sent", "slack_sent", "message"},
     email_sent |-> email, slack_sent |-> slack, error |-> "",
     message |-> "Market research completed successfully"]

\* The dict returned at cron.py lines 59-65
CronSuccess(email, slack) ==
    [returned |-> TRUE, success |-> TRUE,
     keys |-> {"success", "timestamp", "email_sent", "slack_sent", "message"},
     email_sent |-> email, slack_sent |-> slack, error |-> "",
     message |-> "Market research completed successfully"]

CronFailure(e) ==
    [returned |-> TRUE, success |-> FALSE,
     keys |-> {"success", "timestamp", "error", "message"},
     email_sent |-> FALSE, slack_sent |-> FALSE, error |-> e,
     message |-> "Market research failed"]

\* handler.do_GET: self.send_response(200 if result['success'] else 500)
HttpStatus(r) == IF r.success THEN 200 ELSE 500

\* except Exception as e: of the entrypoint that is running
CaughtAtEntry(e) ==
    /\ pc' = "done"
    /\ IF entry = "cron"
         THEN /\ result' = CronFailure(e)
              /\ http_status' = <<HttpStatus(CronFailure(e))>>
              /\ UNCHANGED sys_exit
         ELSE /\ sys_exit' = <<1>>
              /\ UNCHANGED <<result, http_status>>

\* The entrypoint's normal return
ReturnedFromEntry(email, slack) ==
    /\ pc' = "done"
    /\ IF entry = "cron"
         THEN /\ result' = CronSuccess(email, slack)
              /\ http_status' = <<HttpStatus(CronSuccess(email, slack))>>
              /\ UNCHANGED sys_exit
         ELSE /\ sys_exit' = <<0>>
              /\ UNCHANGED <<result, http_status>>

----------------------------------------------------------------------------
(* Actions of a run *)

RunInit(entries, tokens) ==
    /\ entry \in entries
    /\ slack_token \in tokens
    /\ pc = "init"
    /\ tasks = [a \in AdapterNames |-> "created"]
    /\ results = [a \in AdapterNames |-> Returned(<<>>)]
    /\ session_open = FALSE
    /\ snapshot = [a \in AdapterNames |-> <<>>]
    /\ input_data = NoInput
    /\ llm_calls = <<>>
    /\ primary_error = "none"
    /\ analysis = NoAnalysis
    /\ email_calls = <<>>
    /\ slack_calls = <<>>
    /\ email_success = FALSE
    /\ result = NoResult
    /\ sys_exit = <<>>
    /\ slack_success = TRUE
    /\ exceptions = <<>>
    /\ http_status = <<>>

\* agent = MarketResearchAgent(); analyze_market opens the collector and
\* hands the four coroutines to asyncio.gather.
StartRun ==
    /\ pc = "init"
    /\ pc' = "gather"
    /\ session_open' = TRUE
    /\ tasks' = [a \in AdapterNames |-> "running"]
    /\ UNCHANGED <<entry, slack_token, results, snapshot, input_data, llm_calls,
                   primary_error, analysis, email_calls, slack_calls,
                   email_success, result, sys_exit>>
    /\ UNCHANGED <<slack_success, exceptions, http_status>>
    /\ UNCHANGED <<fetchVars, headlineVars, adapterVars>>

\* agent = MarketResearchAgent() raises inside the entrypoint's try:
\* ChatGroq(api_key=os.getenv('GROQ_API_KEY'), ...) at lines 329-340 has no key.
AgentConstructionFails ==
    /\ pc = "init"
    /\ CaughtAtEntry("Did not find groq_api_key")
    /\ exceptions' = Append(exceptions, "construction")
    /\ UNCHANGED <<entry, slack_token, tasks, results, session_open, snapshot,
                   input_data, llm_calls, primary_error, analysis, email_calls,
                   slack_calls, email_success, slack_success>>
    /\ UNCHANGED <<fetchVars, headlineVars, adapterVars>>

\* One adapter's coroutine finishes, with a value or with an exception.
AdapterCompletes ==
    /\ pc = "gather"
    /\ \E a \in AdapterNames :
        /\ tasks[a] = "running"
        /\ \E o \in AdapterOutcomes(a) :
              results' = [results EXCEPT ![a] = o]
        /\ tasks' = [tasks EXCEPT ![a] = "done"]
    /\ UNCHANGED <<entry, slack_token, pc, session_open, snapshot, input_data,
                   llm_calls, primary_error, analysis, email_calls, slack_calls,
                   email_success, result, sys_exit>>
    /\ UNCHANGED <<slack_success, exceptions, http_status>>
    /\ UNCHANGED <<fetchVars, headlineVars, adapterVars>>

\* gather returns, the session is closed, exceptions become empty
\* collections (lines 378-394).
GatherReturns ==
    /\ pc = "gather"
    /\ GatherDone(tasks, results)
    /\ session_open' = FALSE
    /\ snapshot' = [a \in AdapterNames |-> ExceptionToEmpty(results[a])]
    /\ pc' = "breaker"
    /\ UNCHANGED <<entry, slack_token, tasks, results, input_data, llm_calls,
                   primary_error, analysis, email_calls, slack_calls,
                   email_success, result, sys_exit>>
    /\ UNCHANGED <<slack_success, exceptions, http_status>>
    /\ UNCHANGED <<fetchVars, headlineVars, adapterVars>>

\* The circuit breaker (lines 403-407): with no data at all, analyze_market
\* returns the error message as its analysis.
CircuitBreaker ==
    /\ pc = "breaker"
    /\ IF AnyData(snapshot.headlines, snapshot.yields, snapshot.benchmarks,
                  snapshot.movers)
         THEN pc' = "format" /\ UNCHANGED analysis
         ELSE pc' = "notify" /\ analysis' = NoDataMessage
    /\ UNCHANGED <<entry, slack_token, tasks, results, session_open, snapshot,
                   input_data, llm_calls, primary_error, email_calls,
                   slack_calls, email_success, result, sys_exit>>
    /\ UNCHANGED <<slack_success, exceptions, http_status>>
    /\ UNCHANGED <<fetchVars, headlineVars, adapterVars>>

\* Lines 409-472: the prompt sections are formatted.  A yield without a
\* price raises TypeError outside analyze_market's try: the exception
\* reaches the entrypoint's except.
FormatPrompt ==
    /\ pc = "format"
    /\ IF FormatYieldsRaises(snapshot.yields)
         THEN /\ CaughtAtEntry("unsupported format string passed to NoneType.__format__")
              /\ exceptions' = Append(exceptions, "formatting")
              /\ UNCHANGED input_data
         ELSE /\ input_data' = InputData(snapshot)
              /\ pc' = "primary"
              /\ UNCHANGED <<result, sys_exit, exceptions, http_status>>
    /\ UNCHANGED <<entry, slack_token, tasks, results, session_open, snapshot,
                   llm_calls, primary_error, analysis, email_calls, slack_calls,
                   email_success, slack_success>>
    /\ UNCHANGED <<fetchVars, headlineVars, adapterVars>>

\* _try_llm_with_fallback, the primary model (lines 348-357).  A response
\* of LLMChain.ainvoke carries its output under 'text', which line 475 reads.
CallPrimary ==
    /\ pc = "primary"
    /\ \E o \in LLMOutcomes(PrimaryModel) :
          /\ llm_calls' = Append(llm_calls, LLMCall(PrimaryModel, input_data, o))
          /\ IF PrimaryFailed(o)
               THEN pc' = "fallback" /\ primary_error' = o.cause
                                     /\ UNCHANGED analysis
               ELSE pc' = "notify" /\ analysis' = Briefing(o.text)
                                   /\ UNCHANGED primary_error
    /\ UNCHANGED <<entry, slack_token, tasks, results, session_open, snapshot,
                   input_data, email_calls, slack_calls, email_success, result,
                   sys_exit>>
    /\ UNCHANGED <<slack_success, exceptions, http_status>>
    /\ UNCHANGED <<fetchVars, headlineVars, adapterVars>>

\* _try_llm_with_fallback, the fallback model (lines 359-367), and
\* analyze_market's except (lines 486-489) when it fails too.
CallFallback ==
    /\ pc = "fallback"
    /\ \E o \in LLMOutcomes(FallbackModel) :
          /\ llm_calls' = Append(llm_calls, LLMCall(FallbackModel, input_data, o))
          /\ IF o.ok
               THEN /\ analysis' = Briefing(o.text)
                    /\ UNCHANGED exceptions
               ELSE /\ analysis' =
                        AiErrorMessage(BothModelsFailed(primary_error, o.cause))
                    /\ exceptions' = Append(exceptions, "synthesis")
    /\ pc' = "notify"
    /\ UNCHANGED <<slack_success, http_status>>
    /\ UNCHANGED <<entry, slack_token, tasks, results, session_open, snapshot,
                   input_data, primary_error, email_calls, slack_calls,
                   email_success, result, sys_exit>>
    /\ UNCHANGED <<fetchVars, headlineVars, adapterVars>>

\* email_sender.send(subject, agent.format_email_content(analysis))
SendEmail ==
    /\ pc = "notify"
    /\ email_calls' = Append(email_calls, FormatEmailContent(analysis))
    /\ email_success' \in BOOLEAN
    /\ pc' = "slack"
    /\ UNCHANGED <<entry, slack_token, tasks, results, session_open, snapshot,
                   input_data, llm_calls, primary_error, analysis, slack_calls,
                   result, sys_exit>>
    /\ UNCHANGED <<slack_success, exceptions, http_status>>
    /\ UNCHANGED <<fetchVars, headlineVars, adapterVars>>

\* if os.getenv("SLACK_BOT_TOKEN"): slack_sender.send(analysis); return
SendSlack ==
    /\ pc = "slack"
    /\ slack_token
    /\ slack_calls' = Append(slack_calls, analysis)
    /\ slack_success' \in BOOLEAN
    /\ ReturnedFromEntry(email_success, slack_success')
    /\ UNCHANGED exceptions
    /\ UNCHANGED <<entry, slack_token, tasks, results, session_open, snapshot,
                   input_data, llm_calls, primary_error, analysis, email_calls,
                   email_success>>
    /\ UNCHANGED <<fetchVars, headlineVars, adapterVars>>

\* Without a token no Slack message is sent and slack_success stays True
\* (cron.py line 54).
SkipSlack ==
    /\ pc = "slack"
    /\ ~slack_token
    /\ ReturnedFromEntry(email_success, slack_success)
    /\ UNCHANGED <<slack_success, exceptions>>
    /\ UNCHANGED <<entry, slack_token, tasks, results, session_open, snapshot,
                   input_data, llm_calls, primary_error, analysis, email_calls,
                   slack_calls, email_success>>
    /\ UNCHANGED <<fetchVars, headlineVars, adapterVars>>

----------------------------------------------------------------------------
(* MarketDataCollector._fetch_with_retry *)

\* for attempt in range(3)
MaxAttempts == 3

\* What one session.get(url, timeout=10) can end in: a 2xx response, a
\* non-2xx status (raise_for_status raises ClientResponseError), a transport
\* error (ClientConnectionError), or the 10 second total timeout expiring
\* (asyncio.TimeoutError).
AttemptOutcomes == {"ok", "status", "transport", "timeout"}

\* except aiohttp.ClientError: ClientResponseError and ClientConnectionError
\* derive from it, asyncio.TimeoutError does not.
IsClientError(outcome) == outcome \in {"status", "transport"}

\* a backoff that also waits after the last attempt
SleepsAfter_Always(a) == TRUE

\* if attempt < 2
SleepsAfter(a) == a < 2

\* a backoff that starts at two seconds
Backoff_Doubled(a) == 2 ^ (a + 1)

\* asyncio.sleep(2 ** attempt)
Backoff(a) == 2 ^ a

\* await response.text() of the n-th request
Body(n) == [is_none |-> FALSE, body |-> n]
None == [is_none |-> TRUE, body |-> 0]

FetchInit ==
    /\ endpoint \in [1..MaxAttempts -> AttemptOutcomes]
    /\ fetch_pc = "request"
    /\ attempt = 0
    /\ requests = 0
    /\ sleeps = <<>>
    /\ fetch_result = None

FetchIdle ==
    /\ endpoint = [i \in 1..MaxAttempts |-> "ok"]
    /\ fetch_pc = "idle"
    /\ attempt = 0
    /\ requests = 0
    /\ sleeps = <<>>
    /\ fetch_result = None

\* The loop is over: return None
LoopEnds == fetch_pc' = "returned" /\ fetch_result' = None

\* One pass of the loop body up to its first suspension: the request, and
\* what the try statement makes of its outcome.
FetchAttempt ==
    /\ fetch_pc = "request"
    /\ requests' = requests + 1
    /\ LET outcome == endpoint[requests + 1] IN
         IF outcome = "ok"
           THEN /\ fetch_pc' = "returned"
                /\ fetch_result' = Body(requests + 1)
                /\ UNCHANGED attempt
           ELSE IF IsClientError(outcome)
             THEN IF SleepsAfter(attempt)
                    THEN /\ fetch_pc' = "sleep"
                         /\ UNCHANGED <<attempt, fetch_result>>
                    ELSE /\ attempt' = attempt + 1
                         /\ IF attempt + 1 < MaxAttempts
                              THEN fetch_pc' = "request" /\ UNCHANGED fetch_result
                              ELSE LoopEnds
             ELSE /\ fetch_pc' = "raised"
                  /\ UNCHANGED <<attempt, fetch_result>>
    /\ UNCHANGED <<endpoint, sleeps>>
    /\ UNCHANGED <<runVars, headlineVars, adapterVars>>

\* await asyncio.sleep(2 ** attempt), then the next pass of the loop
FetchSleep ==
    /\ fetch_pc = "sleep"
    /\ sleeps' = Append(sleeps, Backoff(attempt))
    /\ attempt' = attempt + 1
    /\ IF attempt + 1 < MaxAttempts
         THEN fetch_pc' = "request" /\ UNCHANGED fetch_result
         ELSE LoopEnds
    /\ UNCHANGED <<endpoint, requests>>
    /\ UNCHANGED <<runVars, headlineVars, adapterVars>>

----------------------------------------------------------------------------
(* MarketDataCollector.fetch_headlines *)

\* return unique_headlines[:300]
HeadlineCap == 300

\* Length of a long feed, and the distance between the first titles of two
\* sources' long feeds (the feeds overlap).
BulkLen == 200
BulkStep == 150

\* news_sources, in the order of its items()
NewsSources == <<"stock_news", "forex_news", "crypto_news", "general_news">>

\* A title is modelled by a number: 0 is the empty string, n > 0 is a
\* non-empty string, n < 0 is a non-empty JSON array (truthy, unhashable).
\* A record of a response has a 'title' key or not.
Item(t) == [has_title |-> TRUE, title |-> t]
NoTitleItem == [has_title |-> FALSE, title |-> 0]

Response(kind, items) == [kind |-> kind, items |-> items]

\* The answers source number i can give to its request.
SourceResponses(i) ==
    { Response("http_error", <<>>),        \* 403, 429, 5xx: ClientResponseError
      Response("client_error", <<>>),      \* another aiohttp.ClientError
      Response("unexpected_error", <<>>),  \* response.json() raises, items are no dicts
      Response("empty", <<>>),             \* [] or {} or null
      Response("other", <<>>),             \* a JSON string or number
      Response("dict", <<>>),              \* a dict without a 'data' key
      Response("list", <<Item(i), NoTitleItem, Item(1), Item(0), Item(i)>>),
      Response("dict_data", <<Item(i + 4), Item(0), Item(i)>>),
      Response("list", <<Item(i), Item(0 - i)>>),
      Response("list", [k \in 1..BulkLen |-> Item(10 + (i - 1) * BulkStep + k)]) }

\* [item['title'] for item in data if 'title' in item and item['title']]
Titles(items) ==
    LET kept == SelectSeq(items, LAMBDA item : item.has_title /\ item.title # 0)
    IN  [k \in 1..Len(kept) |-> kept[k].title]

\* The headlines one source adds to all_headlines (lines 71-108): the titles
\* of a list, or of the list under 'data'; nothing for every other answer.
SourceHeadlines(response) ==
    IF response.kind \in {"list", "dict_data"} THEN Titles(response.items) ELSE <<>>

\* `headline not in seen` hashes the headline
Unhashable(headline) == headline < 0

\* The body of the loop of lines 113-116 for one headline; st holds `seen`
\* and `unique_headlines`.
DedupStep(st, headline) ==
    IF headline # 0 /\ headline \notin st.seen
      THEN [seen |-> st.seen \cup {headline},
            unique |-> Append(st.unique, headline)]
      ELSE st

\* The loop of lines 113-116 over all[lo..hi], in order, started in st: the
\* passes over the first half are completed (their state `first` is
\* evaluated) before those over the second half start.
RECURSIVE DedupLoop(_, _, _, _)
DedupLoop(all, lo, hi, st) ==
    IF lo > hi THEN st
    ELSE IF lo = hi THEN DedupStep(st, all[lo])
    ELSE LET mid == (lo + hi) \div 2
             first == DedupLoop(all, lo, mid, st)
         IN  IF Len(first.unique) <= mid
               THEN DedupLoop(all, mid + 1, hi, first)
               ELSE first

\* a loop that forgets to consult `seen`
UniqueHeadlines_NoSeen(all) == SelectSeq(all, LAMBDA h : h # 0)

\* unique_headlines after the loop
UniqueHeadlines(all) ==
    DedupLoop(all, 1, Len(all), [seen |-> {}, unique |-> <<>>]).unique

\* a slice that is one too long
Truncate_OneMore(unique) ==
    SubSeq(unique, 1, IF Len(unique) < HeadlineCap + 1 THEN Len(unique)
                      ELSE HeadlineCap + 1)

\* unique_headlines[:300]
Truncate(unique) ==
    SubSeq(unique, 1, IF Len(unique) < HeadlineCap THEN Len(unique) ELSE HeadlineCap)

HeadlinesInit ==
    /\ fmp_api_key \in BOOLEAN
    /\ \E r1 \in SourceResponses(1), r2 \in SourceResponses(2),
          r3 \in SourceResponses(3), r4 \in SourceResponses(4) :
            responses = IF fmp_api_key THEN <<r1, r2, r3, r4>>
                        ELSE [i \in 1..Len(NewsSources) |-> Response("empty", <<>>)]
    /\ hl_pc = "start"
    /\ source_idx = 1
    /\ requested = <<>>
    /\ all_headlines = <<>>
    /\ unique_headlines = <<>>

HeadlinesIdle ==
    /\ fmp_api_key = TRUE
    /\ responses = [i \in 1..Len(NewsSources) |-> Response("empty", <<>>)]
    /\ hl_pc = "idle"
    /\ source_idx = 1
    /\ requested = <<>>
    /\ all_headlines = <<>>
    /\ unique_headlines = <<>>

\* if not self.fmp_api_key: return []
ReturnWithoutKey ==
    /\ hl_pc = "start"
    /\ ~fmp_api_key
    /\ hl_pc' = "returned"
    /\ unique_headlines' = <<>>
    /\ UNCHANGED <<fmp_api_key, responses, source_idx, requested, all_headlines>>
    /\ UNCHANGED <<runVars, fetchVars, adapterVars>>

\* One pass of `for source_name, url in news_sources.items()`: the request
\* with self.session.get(url), and the try statement around it.
FetchSource ==
    /\ hl_pc \in {"start", "loop"}
    /\ fmp_api_key
    /\ source_idx <= Len(NewsSources)
    /\ requested' = Append(requested, NewsSources[source_idx])
    /\ all_headlines' = all_headlines \o SourceHeadlines(responses[source_idx])
    /\ source_idx' = source_idx + 1
    /\ hl_pc' = IF source_idx = Len(NewsSources) THEN "dedup" ELSE "loop"
    /\ UNCHANGED <<fmp_api_key, responses, unique_headlines>>
    /\ UNCHANGED <<runVars, fetchVars, adapterVars>>

\* Lines 110-121: duplicates are removed and the first 300 are returned.
\* Hashing a title that is a JSON array raises TypeError, outside every try.
RemoveDuplicates ==
    /\ hl_pc = "dedup"
    /\ IF \E i \in 1..Len(all_headlines) : Unhashable(all_headlines[i])
         THEN hl_pc' = "raised" /\ UNCHANGED unique_headlines
         ELSE /\ hl_pc' = "returned"
              /\ unique_headlines' = Truncate(UniqueHeadlines(all_headlines))
    /\ UNCHANGED <<fmp_api_key, responses, source_idx, requested, all_headlines>>
    /\ UNCHANGED <<runVars, fetchVars, adapterVars>>

----------------------------------------------------------------------------
(* The synchronous adapters _fetch_yields_sync, _fetch_benchmarks_sync and
   _fetch_major_movers_sync, each against every combination of provider
   answers.  Tickers are numbered; a percentage is in thousandths of a
   percent and a formatted percentage in hundredths. *)

MoversCap == 10
ActivesWindow == 50

FewQuotes == 3
ManyQuotes == 12

QuoteKeys == {"symbol", "name", "price", "change", "changesPercentage"}

\* One JSON object of a quote list.  keys are the keys the object carries;
\* pct_kind says whether changesPercentage is a JSON number or a string.
Quote(sym, pct) ==
    [symbol |-> sym, name |-> sym, price |-> 100 + sym, change |-> pct \div 100,
     pct |-> pct, pct_kind |-> "number", keys |-> QuoteKeys]

Without(q, key) == [q EXCEPT !.keys = @ \ {key}]

NonNumeric(q) == [q EXCEPT !.pct_kind = "string"]

\* What an endpoint answers: requests.get raising, a 4xx/5xx status, a body
\* that is not JSON, a JSON object such as {"Error Message": ...}, or a
\* JSON list of quotes.
ConnectionError == [kind |-> "connection_error", data |-> <<>>]
HttpError == [kind |-> "http_error", data |-> <<>>]
BadJson == [kind |-> "bad_json", data |-> <<>>]
ErrorObject == [kind |-> "object", data |-> <<>>]
QuoteList(items) == [kind |-> "list", data |-> items]

\* requests.get(url), response.raise_for_status() or response.json() raises
RequestRaises(r) == r.kind \in {"connection_error", "http_error", "bad_json"}

\* seq[:n]
Take(seq, n) == SubSeq(seq, 1, IF Len(seq) < n THEN Len(seq) ELSE n)

\* f"{x:.2f}": x rounded to two decimals, a tie to the even digit
Format2f(p) ==
    LET q == p \div 10
        r == p % 10
    IN  IF r > 5 \/ (r = 5 /\ q % 2 = 1) THEN q + 1 ELSE q

\* d[v.name] = v on a dict: the entry of that name is replaced where it
\* stands, a new name is added at the end.
DictSet(d, v) ==
    IF \E k \in 1..Len(d) : d[k].name = v.name
      THEN [k \in 1..Len(d) |-> IF d[k].name = v.name THEN v ELSE d[k]]
      ELSE Append(d, v)

\* ---- _fetch_yields_sync ------------------------------------------------

\* symbols.items(), in insertion order
YieldSymbols ==
    << [name |-> "US 13W", symbol |-> "^IRX"],
       [name |-> "US 5Y", symbol |-> "^FVX"],
       [name |-> "US 10Y", symbol |-> "^TNX"],
       [name |-> "US 30Y", symbol |-> "^TYX"] >>

YieldResponses ==
    { HttpError, ErrorObject, QuoteList(<<>>), QuoteList(<<Quote(1, 0)>>),
      QuoteList(<<Without(Quote(1, 0), "price")>>) }

\* Lines 138-143 raise for this response: the request fails, or data[0] is
\* read from a JSON object.
YieldRaises(r) == RequestRaises(r) \/ r.kind = "object"

\* yields[name] = data[0].get('price')
YieldEntry(name, q) ==
    [name |-> name, has_price |-> "price" \in q.keys,
     price |-> IF "price" \in q.keys THEN q.price ELSE 0]

\* ---- _fetch_benchmarks_sync --------------------------------------------

MaxBenchmarks == 3

\* The quote at position k of the batched answer, in each shape
BenchmarkQuotes(k) ==
    { Quote(k, 1234 * k), Without(Quote(k, 1234 * k), "name"),
      NonNumeric(Quote(k, 0)), Without(Quote(k, 0), "changesPercentage") }

BenchmarkLists ==
    UNION { {QuoteList(items) :
                items \in { s \in [1..n -> UNION {BenchmarkQuotes(k) : k \in 1..n}] :
                              \A k \in 1..n : s[k] \in BenchmarkQuotes(k) }} :
            n \in 0..MaxBenchmarks }

BenchmarkResponses ==
    {ConnectionError, HttpError, BadJson, ErrorObject} \cup BenchmarkLists

\* item['name'] raises KeyError; f"{'n/a':.2f}" raises ValueError
BenchmarkRaises(q) ==
    \/ "name" \notin q.keys
    \/ "changesPercentage" \in q.keys /\ q.pct_kind # "number"

\* The dict stored at lines 238-242
BenchmarkEntry(q) ==
    [name |-> q.name,
     has_price |-> "price" \in q.keys,
     price |-> IF "price" \in q.keys THEN q.price ELSE 0,
     has_change |-> "change" \in q.keys,
     change |-> IF "change" \in q.keys THEN q.change ELSE 0,
     change_pct |-> Format2f(IF "changesPercentage" \in q.keys THEN q.pct ELSE 0)]

\* for item in data: benchmarks[item['name']] = {...}, over data[from..]
RECURSIVE BenchmarksLoop(_, _, _)
BenchmarksLoop(benchmarks, data, from) ==
    IF from > Len(data)
      THEN [raised |-> FALSE, benchmarks |-> benchmarks]
      ELSE IF BenchmarkRaises(data[from])
             THEN [raised |-> TRUE, benchmarks |-> benchmarks]
             ELSE BenchmarksLoop(DictSet(benchmarks, BenchmarkEntry(data[from])),
                                 data, from + 1)

\* _fetch_benchmarks_sync for one answer of the batched request.  Iterating
\* a JSON object yields its keys, and item['name'] on a string raises.
FetchBenchmarksSync(r) ==
    IF RequestRaises(r) \/ r.kind = "object"
      THEN <<>>
      ELSE LET loop == BenchmarksLoop(<<>>, r.data, 1)
           IN  IF loop.raised THEN <<>> ELSE loop.benchmarks

\* ---- _fetch_major_movers_sync ------------------------------------------

\* urls.items(), in insertion order
MoveTypes == <<"gainers", "losers">>

Gainers(n, from) == [k \in 1..n |-> Quote(from + k, 1000 * k + 4)]
Losers(n, from) == [k \in 1..n |-> Quote(from + k, 0 - (1000 * k + 4))]
Unchanged(n, from) == [k \in 1..n |-> Quote(from + k, 0)]

ActivesResponses ==
    { HttpError, ErrorObject, QuoteList(<<>>),
      QuoteList(Unchanged(FewQuotes, 0)),
      QuoteList(Gainers(FewQuotes, 0) \o Losers(FewQuotes, 100)),
      QuoteList(Gainers(ManyQuotes, 0) \o Losers(ManyQuotes, 100)),
      QuoteList(Gainers(ManyQuotes, 0) \o <<Without(Quote(200, -504), "name")>>),
      QuoteList(<<Quote(1, 2004), Without(Quote(2, 1004), "symbol"),
                  Quote(3, -3004)>>),
      QuoteList(<<Quote(1, 2004), NonNumeric(Quote(2, 0))>>),
      QuoteList(Unchanged(ActivesWindow, 0) \o Gainers(FewQuotes, 300)) }

MoverResponses(move_type) ==
    LET quotes(n) == IF move_type = "gainers" THEN Gainers(n, 400)
                                              ELSE Losers(n, 500)
    IN  { HttpError, QuoteList(<<>>), QuoteList(quotes(FewQuotes)),
          QuoteList(quotes(ManyQuotes)),
          QuoteList(<<quotes(2)[1], Without(quotes(2)[2], "name")>>) }

\* item.get('changesPercentage', 0)
GetChange(q) == IF "changesPercentage" \in q.keys THEN q.pct ELSE 0

\* abs(x)
Abs(x) == IF x < 0 THEN 0 - x ELSE x

\* abs() of a string raises TypeError inside sorted()
SortRaises(items) ==
    \E k \in 1..Len(items) :
        "changesPercentage" \in items[k].keys /\ items[k].pct_kind # "number"

\* sorted(items, key=lambda x: abs(x.get('changesPercentage', 0)),
\* reverse=True): descending, equal keys in their original order
SortedByChange(items) ==
    LET n == Len(items)
        key(i) == Abs(GetChange(items[i]))
        Before(i, j) == key(i) > key(j) \/ (key(i) = key(j) /\ i < j)
        Rank(i) == Cardinality({j \in 1..n : Before(j, i)}) + 1
    IN  [k \in 1..n |-> items[CHOOSE i \in 1..n : Rank(i) = k]]

\* item['symbol'], item['name'] or item['changesPercentage'] raises KeyError,
\* or the percentage cannot be formatted
MoverRaises(q) ==
    \/ "symbol" \notin q.keys
    \/ "name" \notin q.keys
    \/ "changesPercentage" \notin q.keys
    \/ q.pct_kind # "number"

\* The dict appended at lines 278-285, 289-296 (detailed, with price and
\* volume) and 311-316
MoverEntry(q, move_type, detailed) ==
    [symbol |-> q.symbol, name |-> q.name, change_pct |-> Format2f(q.pct),
     type |-> move_type, detailed |-> detailed]

\* for item in items: movers.append({...}), up to the first item that raises
AppendMovers(movers, items, move_type, detailed) ==
    LET bad == {k \in 1..Len(items) : MoverRaises(items[k])}
        stop == IF bad = {} THEN Len(items) + 1
                ELSE CHOOSE k \in bad : \A j \in bad : k <= j
    IN  [raised |-> bad # {},
         movers |-> movers \o [k \in 1..(stop - 1) |->
                                  MoverEntry(items[k], move_type, detailed)]]

\* Lines 256-299, the attempt on the 'actives' endpoint: whether it raised,
\* and the list `movers` as it leaves.  Slicing a JSON object raises.
PrimaryMovers(r) ==
    IF RequestRaises(r) \/ r.kind = "object"
      THEN [raised |-> TRUE, movers |-> <<>>]
    ELSE IF r.data = <<>>
      THEN [raised |-> FALSE, movers |-> <<>>]
    ELSE IF SortRaises(Take(r.data, ActivesWindow))
      THEN [raised |-> TRUE, movers |-> <<>>]
    ELSE
      LET sorted_by_change == SortedByChange(Take(r.data, ActivesWindow))
          gainers == Take(SelectSeq(sorted_by_change,
                                    LAMBDA q : GetChange(q) > 0), MoversCap)
          losers == Take(SelectSeq(sorted_by_change,
                                   LAMBDA q : GetChange(q) < 0), MoversCap)
          added == AppendMovers(<<>>, gainers, "gainers", TRUE)
      IN  IF added.raised THEN added
          ELSE AppendMovers(added.movers, losers, "losers", TRUE)

\* ---- one call of one adapter -------------------------------------------

SyncAdapters == {"yields", "benchmarks", "movers"}

ProviderAnswers(a) ==
    CASE a = "yields" ->
           [{YieldSymbols[k].symbol : k \in 1..Len(YieldSymbols)} -> YieldResponses]
      [] a = "benchmarks" -> [{"quote"} -> BenchmarkResponses]
      [] a = "movers" ->
           { [e \in {"actives", "gainers", "losers"} |->
                  CASE e = "actives" -> x [] e = "gainers" -> g [] e = "losers" -> l] :
             x \in ActivesResponses, g \in MoverResponses("gainers"),
             l \in MoverResponses("losers") }

SyncInit ==
    /\ adapter \in SyncAdapters
    /\ fmp \in ProviderAnswers(adapter)
    /\ sync_pc = "start"
    /\ fmp_requests = <<>>
    /\ built = <<>>
    /\ sync_result = <<>>

SyncIdle ==
    /\ adapter = "none"
    /\ fmp = [e \in {"quote"} |-> QuoteList(<<>>)]
    /\ sync_pc = "idle"
    /\ fmp_requests = <<>>
    /\ built = <<>>
    /\ sync_result = <<>>

\* except Exception as e: print(...); return {} (or [])
ReturnEmpty == sync_pc' = "returned" /\ sync_result' = <<>>

\* One pass of `for name, symbol in symbols.items()` (lines 136-143) inside
\* the try statement that spans the whole loop.
FetchYield ==
    /\ adapter = "yields"
    /\ sync_pc \in {"start", "loop"}
    /\ Len(fmp_requests) < Len(YieldSymbols)
    /\ LET s == YieldSymbols[Len(fmp_requests) + 1]
           r == fmp[s.symbol]
       IN  /\ fmp_requests' = Append(fmp_requests, s.symbol)
           /\ IF YieldRaises(r)
                THEN ReturnEmpty /\ UNCHANGED built
                ELSE /\ built' = IF r.data # <<>>
                                   THEN DictSet(built, YieldEntry(s.name, r.data[1]))
                                   ELSE built
                     /\ sync_pc' = "loop"
                     /\ UNCHANGED sync_result
    /\ UNCHANGED <<adapter, fmp>>
    /\ UNCHANGED <<runVars, fetchVars, headlineVars>>

\* return yields (line 143)
ReturnYields ==
    /\ adapter = "yields"
    /\ sync_pc = "loop"
    /\ Len(fmp_requests) = Len(YieldSymbols)
    /\ sync_pc' = "returned"
    /\ sync_result' = built
    /\ UNCHANGED <<adapter, fmp, fmp_requests, built>>
    /\ UNCHANGED <<runVars, fetchVars, headlineVars>>

\* _fetch_benchmarks_sync: the one batched request and the loop over its
\* answer (lines 232-246).
FetchBenchmarks ==
    /\ adapter = "benchmarks"
    /\ sync_pc = "start"
    /\ fmp_requests' = Append(fmp_requests, "quote")
    /\ sync_pc' = "returned"
    /\ sync_result' = FetchBenchmarksSync(fmp["quote"])
    /\ built' = sync_result'
    /\ UNCHANGED <<adapter, fmp>>
    /\ UNCHANGED <<runVars, fetchVars, headlineVars>>

\* The attempt on 'actives' (lines 256-299): it returns its entries, or it
\* leaves for the fallback with `movers` as it stands.
FetchActives ==
    /\ adapter = "movers"
    /\ sync_pc = "start"
    /\ fmp_requests' = Append(fmp_requests, "actives")
    /\ LET primary == PrimaryMovers(fmp["actives"])
       IN  /\ built' = primary.movers
           /\ IF ~primary.raised /\ primary.movers # <<>>
                THEN sync_pc' = "returned" /\ sync_result' = primary.movers
                ELSE sync_pc' = "fallback" /\ UNCHANGED sync_result
    /\ UNCHANGED <<adapter, fmp>>
    /\ UNCHANGED <<runVars, fetchVars, headlineVars>>

\* One pass of `for move_type, url in urls.items()` (lines 308-316) inside
\* the try statement that spans the whole loop.
FetchMovers ==
    /\ adapter = "movers"
    /\ sync_pc = "fallback"
    /\ Len(fmp_requests) <= Len(MoveTypes)
    /\ LET move_type == MoveTypes[Len(fmp_requests)]
           r == fmp[move_type]
           added == AppendMovers(built, Take(r.data, MoversCap), move_type, FALSE)
       IN  /\ fmp_requests' = Append(fmp_requests, move_type)
           /\ IF RequestRaises(r) \/ r.kind = "object"
                THEN ReturnEmpty /\ UNCHANGED built
                ELSE /\ built' = added.movers
                     /\ IF added.raised
                          THEN ReturnEmpty
                          ELSE UNCHANGED <<sync_pc, sync_result>>
    /\ UNCHANGED <<adapter, fmp>>
    /\ UNCHANGED <<runVars, fetchVars, headlineVars>>

\* return movers (line 317)
ReturnMovers ==
    /\ adapter = "movers"
    /\ sync_pc = "fallback"
    /\ Len(fmp_requests) = Len(MoveTypes) + 1
    /\ sync_pc' = "returned"
    /\ sync_result' = built
    /\ UNCHANGED <<adapter, fmp, fmp_requests, built>>
    /\ UNCHANGED <<runVars, fetchVars, headlineVars>>

----------------------------------------------------------------------------
(* Specifications *)

Init ==
    RunInit({"cron", "cli"}, BOOLEAN) /\ FetchIdle /\ HeadlinesIdle /\ SyncIdle

Next ==
    \/ StartRun
    \/ AgentConstructionFails
    \/ AdapterCompletes
    \/ GatherReturns
    \/ CircuitBreaker
    \/ FormatPrompt
    \/ CallPrimary
    \/ CallFallback
    \/ SendEmail
    \/ SendSlack
    \/ SkipSlack

Spec == Init /\ [][Next]_vars

\* One call of _fetch_with_retry against every endpoint behaviour.
InitFetch ==
    RunInit({"cron"}, {FALSE}) /\ FetchInit /\ HeadlinesIdle /\ SyncIdle

NextFetch ==
    \/ FetchAttempt
    \/ FetchSleep

SpecFetch == InitFetch /\ [][NextFetch]_vars

\* One call of fetch_headlines against every combination of answers.
InitHeadlines ==
    RunInit({"cron"}, {FALSE}) /\ FetchIdle /\ HeadlinesInit /\ SyncIdle

NextHeadlines ==
    \/ ReturnWithoutKey
    \/ FetchSource
    \/ RemoveDuplicates

SpecHeadlines == InitHeadlines /\ [][NextHeadlines]_vars

\* One call of a synchronous adapter against every combination of answers.
InitAdapters ==
    RunInit({"cron"}, {FALSE}) /\ FetchIdle /\ HeadlinesIdle /\ SyncInit

NextAdapters ==
    \/ FetchYield
    \/ ReturnYields
    \/ FetchBenchmarks
    \/ FetchActives
    \/ FetchMovers
    \/ ReturnMovers

SpecAdapters == InitAdapters /\ [][NextAdapters]_vars

----------------------------------------------------------------------------
(* Claims about a run *)

\* analyze_market has passed line 394: the agent was built and gather returned.
Collected == pc \notin {"init", "gather"} /\ exceptions # <<"construction">>

AllEmpty(s) == \A a \in AdapterNames : Len(s[a]) = 0

RunSucceeded == IF entry = "cron" THEN result.success ELSE sys_exit = <<0>>

BothCallsFailed ==
    /\ Len(llm_calls) = 2
    /\ ~llm_calls[1].outcome.ok
    /\ ~llm_calls[2].outcome.ok

\* C1: when headlines, yields, benchmarks and movers are all empty after
\* collection (adapter exceptions converted to empty included), no model,
\* primary or fallback, is invoked at any point of the run.
C1_NoModelCallWithoutData ==
    (Collected /\ AllEmpty(snapshot)) => llm_calls = <<>>

\* C1 witness: a finished run whose four collections were empty, one of them
\* because its adapter raised, and in which no model was called.
C1_Witness ==
    /\ pc = "done"
    /\ AllEmpty(snapshot)
    /\ \E a \in AdapterNames : results[a].raised
    /\ \E a \in AdapterNames : ~results[a].raised
    /\ llm_calls = <<>>

\* C2: when the circuit breaker finds the snapshot non-viable, the run ends
\* with success = false and a descriptive error, and neither the email nor
\* the chat dispatcher is called at any point of the run.
C2_AbortedRunFailsWithoutDelivery ==
    (Collected /\ AllEmpty(snapshot)) =>
        /\ email_calls = <<>>
        /\ slack_calls = <<>>
        /\ pc = "done" => ~RunSucceeded
        /\ (pc = "done" /\ entry = "cron") => result.error # ""

\* C3: when the primary and the fallback call both fail, the run is reported
\* as failed and no text is handed to the email or chat dispatcher.
C3_SynthesisFailureFailsWithoutDelivery ==
    BothCallsFailed =>
        /\ email_calls = <<>>
        /\ slack_calls = <<>>
        /\ pc = "done" => ~RunSucceeded

\* C4: the circuit breaker's step aborts (analyze_market returns the no-data
\* message) exactly when the four collections are all empty, and for every
\* other combination of empty and non-empty collections it passes the
\* snapshot on to the synthesis stage.
C4_BreakerTripsIffAllEmpty ==
    [][pc = "breaker" =>
          /\ AllEmpty(snapshot) <=> (pc' = "notify" /\ analysis' = NoDataMessage)
          /\ ~AllEmpty(snapshot) <=> (pc' = "format" /\ analysis' = NoAnalysis)]_vars

\* C4 witness: only the yields are populated and the run has passed the
\* breaker into the synthesis stage.
C4_Witness ==
    /\ pc = "format"
    /\ snapshot.yields # <<>>
    /\ snapshot.headlines = <<>>
    /\ snapshot.benchmarks = <<>>
    /\ snapshot.movers = <<>>

\* C5: the primary model is called first and once; the fallback is called
\* (once, after the primary, with the same input) only if the primary call
\* failed, and then its output is the result; if both fail the error carries
\* both causes; there is never a third call, and never a fallback call
\* after a successful primary call.
C5_PrimaryThenFallbackOnce ==
    /\ Len(llm_calls) <= 2
    /\ Len(llm_calls) >= 1 =>
          /\ llm_calls[1].model = PrimaryModel
          /\ llm_calls[1].input = InputData(snapshot)
    /\ Len(llm_calls) = 2 =>
          /\ llm_calls[2].model = FallbackModel
          /\ llm_calls[2].input = llm_calls[1].input
          /\ ~llm_calls[1].outcome.ok
    /\ (Len(llm_calls) = 1 /\ pc # "fallback") =>
          /\ llm_calls[1].outcome.ok
          /\ analysis = Briefing(llm_calls[1].outcome.text)
    /\ (Len(llm_calls) = 1 /\ pc = "fallback") => ~llm_calls[1].outcome.ok
    /\ (Len(llm_calls) = 2 /\ llm_calls[2].outcome.ok) =>
          analysis = Briefing(llm_calls[2].outcome.text)
    /\ BothCallsFailed =>
          /\ analysis.kind = "error"
          /\ analysis.primary = llm_calls[1].outcome.cause
          /\ analysis.fallback = llm_calls[2].outcome.cause

\* C5 witness: the primary call failed, the fallback was called after it and
\* succeeded, and its output is the analysis.
C5_Witness ==
    /\ Len(llm_calls) = 2
    /\ ~llm_calls[1].outcome.ok
    /\ llm_calls[2].outcome.ok
    /\ analysis = Briefing(FallbackModel)

\* C6: the collector's wait ends only when all four adapters have finished;
\* an adapter that raised leaves the other three results as they were
\* returned, and its own category is an empty collection in the snapshot.
C6_GatherWaitsForAll ==
    Collected =>
        \A a \in AdapterNames :
            /\ tasks[a] = "done"
            /\ results[a].raised => snapshot[a] = <<>>
            /\ ~results[a].raised => snapshot[a] = results[a].value

\* C6 witness: the yields adapter raised, the other three returned data, and
\* the snapshot holds their data next to empty yields.
C6_Witness ==
    /\ pc = "breaker"
    /\ results.yields.raised
    /\ snapshot.yields = <<>>
    /\ snapshot.headlines # <<>>
    /\ snapshot.benchmarks # <<>>
    /\ snapshot.movers # <<>>

----------------------------------------------------------------------------
(* Claims about _fetch_with_retry *)

\* A failed attempt in the sense of the fetch primitive's contract: a
\* non-2xx status or a transport error.
FailedAttempt(i) == endpoint[i] \in {"status", "transport"}

FailsTwiceThenSucceeds ==
    FailedAttempt(1) /\ FailedAttempt(2) /\ endpoint[3] = "ok"

AlwaysFails == \A i \in 1..3 : FailedAttempt(i)

FetchOver == fetch_pc \in {"returned", "raised"}

\* C7: against an endpoint that fails twice and then succeeds, exactly 3
\* requests are made and the third response is returned; against one that
\* always fails, exactly 3 requests are made and the failure value is
\* returned; in both cases the waits are 1 s then 2 s, none after the last
\* failed attempt.
C7_AttemptsAndBackoff ==
    /\ requests <= 3
    /\ (FetchOver /\ FailsTwiceThenSucceeds) =>
          /\ fetch_pc = "returned"
          /\ requests = 3
          /\ fetch_result = Body(3)
          /\ sleeps = <<1, 2>>
    /\ (FetchOver /\ AlwaysFails) =>
          /\ fetch_pc = "returned"
          /\ requests = 3
          /\ fetch_result.is_none
          /\ sleeps = <<1, 2>>

\* C7 witness: three failed attempts, of both kinds, and the failure value
\* returned after waits of 1 s and 2 s.
C7_Witness ==
    /\ fetch_pc = "returned"
    /\ endpoint = <<"status", "transport", "status">>
    /\ requests = 3
    /\ fetch_result.is_none
    /\ sleeps = <<1, 2>>

\* The number of requests the claim expects: up to and including the first
\* successful one, all three when none succeeds.
ExpectedRequests ==
    IF \E i \in 1..3 : endpoint[i] = "ok"
      THEN CHOOSE i \in 1..3 : endpoint[i] = "ok" /\ \A j \in 1..(i - 1) : endpoint[j] # "ok"
      ELSE 3

\* C8: every kind of failed attempt (non-2xx status, transport error,
\* timeout) counts as one failed attempt and is followed by the next
\* attempt; the primitive returns a failure value after the last attempt and
\* never raises to its caller.
C8_EveryFailureRetriedNeverRaises ==
    /\ fetch_pc # "raised"
    /\ fetch_pc = "returned" =>
          /\ requests = ExpectedRequests
          /\ fetch_result.is_none <=> (\A i \in 1..3 : endpoint[i] # "ok")

----------------------------------------------------------------------------
(* Claims about fetch_headlines *)

\* The positions of all at which a non-empty title occurs for the first time.
FirstOccurrences(all) ==
    {i \in 1..Len(all) : all[i] # 0 /\ \A j \in 1..(i - 1) : all[j] # all[i]}

Distinct(seq) == {seq[k] : k \in 1..Len(seq)}

\* C9: the adapter's result is the gathered titles with exact duplicates
\* removed, each title kept at its first occurrence and in the original
\* order, cut to the first 300; it never has more than 300 entries nor a
\* repeated title; dedup([a,b,a,c,b]) = [a,b,c].
C9_DedupKeepsFirstOccurrencesCappedAt300 ==
    /\ hl_pc = "returned" =>
          LET first == FirstOccurrences(all_headlines)
              n == Cardinality(first)
          IN  /\ Len(unique_headlines) = IF n < 300 THEN n ELSE 300
              /\ \A i \in first :
                    LET rank == Cardinality({j \in first : j <= i})
                    IN  rank <= 300 => unique_headlines[rank] = all_headlines[i]
              /\ Cardinality(Distinct(unique_headlines)) = Len(unique_headlines)
    /\ Len(unique_headlines) <= 300
    /\ UniqueHeadlines(<<1, 2, 1, 3, 2>>) = <<1, 2, 3>>

\* C9 witness: more than 300 different titles were gathered, some of them
\* twice, and exactly 300 were returned.
C9_Witness ==
    /\ hl_pc = "returned"
    /\ Cardinality(Distinct(all_headlines)) > 300
    /\ Cardinality(Distinct(all_headlines)) < Len(all_headlines)
    /\ Len(unique_headlines) = 300

\* The non-empty titles in the answer of source i, when the answer is a list
\* of records or a dict holding one under 'data'.
AnsweredTitles(i) ==
    IF responses[i].kind \in {"list", "dict_data"}
      THEN {responses[i].items[k].title : k \in 1..Len(responses[i].items)} \ {0}
      ELSE {}

\* C10: the headline adapter never fails to its caller; whatever a source's
\* request ends in, the other sources are still requested, a failed source
\* contributes no headline, and the titles of the others are in the result
\* (as far as the cap of 300 allows).
C10_HeadlinesNeverFail ==
    /\ hl_pc # "raised"
    /\ (hl_pc = "returned" /\ fmp_api_key) =>
          /\ requested = NewsSources
          /\ Distinct(unique_headlines) \subseteq
                UNION {AnsweredTitles(i) : i \in 1..4}
          /\ Len(unique_headlines) < 300 =>
                UNION {AnsweredTitles(i) : i \in 1..4} \subseteq Distinct(unique_headlines)

----------------------------------------------------------------------------
(* Claims about the movers adapter *)

MoversReturned == adapter = "movers" /\ sync_pc = "returned"

CountType(movers, t) == Cardinality({k \in 1..Len(movers) : movers[k].type = t})

\* C11: whatever path the movers adapter took (the 'actives' attempt
\* succeeding, coming back empty, raising part-way through building its
\* entries, or the fallback), the list it returns holds at most ten entries
\* tagged gainers and at most ten tagged losers.
C11_AtMostTenPerCategory ==
    MoversReturned =>
        /\ CountType(sync_result, "gainers") <= MoversCap
        /\ CountType(sync_result, "losers") <= MoversCap

\* C12: the gainers and losers endpoints are requested exactly when the
\* 'actives' attempt produced no entry; when they are, both are requested,
\* gainers then losers, and every entry they contribute carries the category
\* of the endpoint it came from.
C12_FallbackIffPrimaryEmpty ==
    MoversReturned =>
        LET primary == PrimaryMovers(fmp["actives"])
        IN  /\ fmp_requests[1] = "actives"
            /\ (Len(fmp_requests) > 1) <=> (primary.movers = <<>>)
            /\ Len(fmp_requests) > 1 =>
                   fmp_requests = <<"actives", "gainers", "losers">>
            /\ \A k \in 1..Len(sync_result) :
                   ~sync_result[k].detailed =>
                       \E q \in Distinct(Take(fmp[sync_result[k].type].data, MoversCap)) :
                           q.symbol = sync_result[k].symbol

\* C16: the yield adapter requests each tracked instrument once; an
\* instrument whose request or answer fails is the only one missing from the
\* result, the entries obtained before it are kept and the instruments after
\* it are still requested.
YieldsReturned == adapter = "yields" /\ sync_pc = "returned"

C16_OneFailedYieldOmitsOnlyItself ==
    YieldsReturned =>
        LET good == SelectSeq(YieldSymbols,
                              LAMBDA s : /\ ~YieldRaises(fmp[s.symbol])
                                         /\ fmp[s.symbol].data # <<>>)
        IN  /\ fmp_requests = [k \in 1..Len(YieldSymbols) |-> YieldSymbols[k].symbol]
            /\ sync_result = [k \in 1..Len(good) |->
                                 YieldEntry(good[k].name, fmp[good[k].symbol].data[1])]

\* C17: the benchmark adapter returns an empty mapping when its one batched
\* request fails; when the answer holds a malformed entry (no name, or a
\* change percentage that is no number) it leaves out that entry alone and
\* returns every well-formed entry.
BenchmarksReturned == adapter = "benchmarks" /\ sync_pc = "returned"

C17_MalformedBenchmarkSkippedAlone ==
    BenchmarksReturned =>
        LET r == fmp["quote"]
            good == SelectSeq(r.data, LAMBDA q : ~BenchmarkRaises(q))
        IN  /\ fmp_requests = <<"quote">>
            /\ r.kind # "list" => sync_result = <<>>
            /\ r.kind = "list" =>
                   sync_result = [k \in 1..Len(good) |-> BenchmarkEntry(good[k])]

----------------------------------------------------------------------------
(* Claims about delivery, failures and the order of the phases *)

\* C13: a dispatcher that returns false does not change how the run is
\* classified: a run whose briefing was produced ends as a success, the
\* e-mail dispatcher was called once, the chat dispatcher was called when a
\* token is configured whatever the e-mail dispatcher returned, and
\* email_sent and slack_sent are what the dispatchers returned.
C13_DeliveryFailureKeepsSuccess ==
    (pc = "done" /\ analysis.kind = "briefing") =>
        /\ RunSucceeded
        /\ Len(email_calls) = 1
        /\ Len(slack_calls) = IF slack_token THEN 1 ELSE 0
        /\ entry = "cron" =>
               /\ result.email_sent = email_success
               /\ result.slack_sent = slack_success

\* C13 witness: both dispatchers were called and both returned false, and
\* the serverless run still reports success.
C13_Witness ==
    /\ pc = "done"
    /\ entry = "cron"
    /\ analysis.kind = "briefing"
    /\ Len(email_calls) = 1 /\ ~email_success
    /\ Len(slack_calls) = 1 /\ ~slack_success
    /\ result.success
    /\ ~result.email_sent /\ ~result.slack_sent

\* C14: an exception raised at any step of the run (building the agent,
\* collection, formatting, synthesis, delivery) ends the run as a failure:
\* success=false for the serverless entry, a non-zero exit for the CLI.
C14_EveryExceptionEndsInFailure ==
    (pc = "done" /\ exceptions # <<>>) => ~RunSucceeded

\* C15: the entrypoint reports success (HTTP 200, exit 0) exactly when the
\* run produced its briefing, and failure (HTTP 500, non-zero exit) for a
\* run aborted for lack of data, a synthesis that failed on both models and
\* an unexpected exception.
EntryStatusOk == IF entry = "cron" THEN http_status = <<200>> ELSE sys_exit = <<0>>

C15_StatusMatchesOutcome ==
    pc = "done" =>
        /\ IF entry = "cron" THEN http_status \in {<<200>>, <<500>>}
                             ELSE sys_exit \in {<<0>>, <<1>>}
        /\ EntryStatusOk <=> analysis.kind = "briefing"

\* C18: each of the four headline requests has its own retry budget (a
\* source that keeps failing transiently is requested three times) and the
\* four requests are in flight together (no answer is consumed before all
\* four requests are issued).
TimesRequested(i) ==
    Cardinality({k \in 1..Len(requested) : requested[k] = NewsSources[i]})

C18_HeadlineRequestsRetriedAndConcurrent ==
    /\ requested # <<>> => Len(requested) >= Len(NewsSources)
    /\ hl_pc \in {"dedup", "returned", "raised"} /\ fmp_api_key =>
           \A i \in 1..Len(NewsSources) :
               TimesRequested(i) =
                   IF responses[i].kind \in {"http_error", "client_error"}
                     THEN MaxAttempts ELSE 1

NoneYield == \E k \in 1..Len(snapshot.yields) : ~snapshot.yields[k].has_price

C20_NoneYieldFailsRunBeforeModelCall ==
    (Collected /\ NoneYield) =>
        /\ pc \in {"breaker", "format", "done"}
        /\ llm_calls = <<>>
        /\ email_calls = <<>>
        /\ slack_calls = <<>>
        /\ pc = "done" =>
               /\ ~RunSucceeded
               /\ exceptions = <<"formatting">>
               /\ entry = "cron" =>
                      result = CronFailure("unsupported format string passed to NoneType.__format__")

\* C20 witness: headlines, benchmarks and movers were collected next to a
\* yield without a rate, and the run has ended as a failure.
C20_Witness ==
    /\ pc = "done"
    /\ Collected
    /\ NoneYield
    /\ snapshot.headlines # <<>>
    /\ snapshot.benchmarks # <<>>
    /\ snapshot.movers # <<>>
    /\ ~RunSucceeded

====
